---- MODULE Spec2Model ----
(***************************************************************************)
(* Model of src/app.py: the literature-review pipeline.                    *)
(*                                                                         *)
(* A string is a sequence of one-character strings, so that truncation,    *)
(* whitespace normalisation, prefix tests and concatenation are computed   *)
(* character by character as Python computes them.                         *)
(*                                                                         *)
(* Two specifications share the module:                                    *)
(*   Spec         one run of main(): search_papers (generator loop,        *)
(*                extraction, filter, sleep), the analysis loop and the    *)
(*                report;                                                  *)
(*   SpecExtract  get_page_content applied once to a fetch outcome drawn   *)
(*                from a set that holds strings around the 1500-character  *)
(*                truncation point.                                        *)
(***************************************************************************)
EXTENDS Integers, Sequences, FiniteSets, TLC

VARIABLES
  pc,               \* position of main() / search_papers
  search_query,     \* st.text_input value
  max_results,      \* sidebar slider value
  yielded,          \* URLs the search generator has yielded so far
  url,              \* loop variable of search_papers
  results,          \* search_papers' local list
  papers,           \* value returned by search_papers
  idx,              \* enumerate index i of the analysis loop
  papers_data,      \* main()'s list of analysed papers
  markdown_content, \* generate_markdown's result (<<>> until generated)
  now,              \* wall clock, in seconds
  inFlight,         \* language-model calls started and not yet returned
  searchFailed,     \* history: the search generator raised
  extracted,        \* history: get_page_content's result of every attempt
  attempts,         \* history: [start, end] times of every attempt
  delays,           \* history: number of time.sleep(2) calls
  events,           \* history: progress / analyse-start / analyse-end events
  llmLog,           \* history: the language-model outcome of every call
  warned,           \* history: st.warning shown ("none", "empty", "nopapers")
  exUrl,            \* SpecExtract: argument of get_page_content
  exFetch,          \* SpecExtract: what download/parse/nlp do for exUrl
  exResult          \* SpecExtract: <<>> or <<the returned dict>>

vars ==
  <<pc, search_query, max_results, yielded, url, results, papers, idx,
    papers_data, markdown_content, now, inFlight, searchFailed,
    extracted, attempts, delays, events, llmLog, warned, exUrl, exFetch,
    exResult>>

pipeVars ==
  <<pc, search_query, max_results, yielded, url, results, papers, idx,
    papers_data, markdown_content, now, inFlight, searchFailed,
    extracted, attempts, delays, events, llmLog, warned>>

exVars == <<exUrl, exFetch, exResult>>

(***************************************************************************)
(* Bounds of the model and constants of the program.                       *)
(***************************************************************************)
\* Most URLs the search generator yields in one run.
MaxYield == 3

\* Input strings of SpecExtract are up to Extra characters shorter or longer
\* than the truncation length.
Extra == 1

\* content[:1500]
TruncLen == 1500

\* time.sleep(2)
SleepSecs == 2

\* st.sidebar.slider("Maximum number of papers:", 1, 35, 5)
SliderMin == 1

SliderMax == 35

(***************************************************************************)
(* String literals of the program.                                         *)
(***************************************************************************)
\* f"Error extracting content: {str(e)}"
ErrorBodyPrefix ==
  <<"E", "r", "r", "o", "r", " ", "e", "x", "t", "r", "a", "c", "t", "i", "n", "g", " ", "c",
    "o", "n", "t", "e", "n", "t", ":", " ">>

\* .startswith("Error extracting content")
ErrorFilterPrefix ==
  <<"E", "r", "r", "o", "r", " ", "e", "x", "t", "r", "a", "c", "t", "i", "n", "g", " ", "c",
    "o", "n", "t", "e", "n", "t">>

SentinelBody ==
  <<"C", "o", "n", "t", "e", "n", "t", " ", "n", "o", "t", " ", "a", "c", "c", "e", "s", "s",
    "i", "b", "l", "e", " ", "-", " ", "m", "i", "g", "h", "t", " ", "b", "e", " ", "a", " ",
    "P", "D", "F", " ", "o", "r", " ", "p", "r", "o", "t", "e", "c", "t", "e", "d", " ", "c",
    "o", "n", "t", "e", "n", "t">>

\* f"Analysis error: {str(e)}"
AnalysisErrorPrefix ==
  <<"A", "n", "a", "l", "y", "s", "i", "s", " ", "e", "r", "r", "o", "r", ":", " ">>

MdHeader1 ==
  <<"#", " ", "L", "i", "t", "e", "r", "a", "t", "u", "r", "e", " ", "R", "e", "v", "i", "e",
    "w", " ", "R", "e", "s", "u", "l", "t", "s", "\n", "#", "#", " ", "S", "e", "a", "r", "c",
    "h", " ", "Q", "u", "e", "r", "y", ":", " ">>

MdHeader2 ==
  <<"\n", "*", "G", "e", "n", "e", "r", "a", "t", "e", "d", " ", "o", "n", ":", " ">>

MdHeader3 ==
  <<"*", "\n", "\n">>

MdSec1 ==
  <<"\n", "#", "#", " ">>

MdSec2 ==
  <<".", " ">>

MdSec3 ==
  <<"\n", "\n", "*", "*", "L", "i", "n", "k", ":", "*", "*", " ">>

MdSec4 ==
  <<"\n", "\n", "*", "*", "D", "e", "s", "c", "r", "i", "p", "t", "i", "o", "n", ":", "*", "*",
    "\n">>

MdSec5 ==
  <<"\n", "\n", "*", "*", "A", "I", " ", "A", "n", "a", "l", "y", "s", "i", "s", ":", "*", "*",
    "\n">>

MdSec6 ==
  <<"\n", "\n", "-", "-", "-", "\n">>

(***************************************************************************)
(* Python string primitives.                                               *)
(***************************************************************************)
Min(a, b) == IF a <= b THEN a ELSE b

\* the characters str.split() treats as separators (those of the alphabet)
IsSpace(c) == c \in {" ", "\t", "\n"}

\* s.startswith(p)
startswith(s, p) == Len(s) >= Len(p) /\ SubSeq(s, 1, Len(p)) = p

\* n copies of the character c
Rep(c, n) == [k \in 1..n |-> c]

\* text.split(): the maximal runs of non-whitespace characters, in order
split(text) ==
  LET n == Len(text)
      pos == [k \in 1..n |-> k]
      starts == SelectSeq(pos, LAMBDA k: ~IsSpace(text[k]) /\ (k = 1 \/ IsSpace(text[k - 1])))
      ends == SelectSeq(pos, LAMBDA k: ~IsSpace(text[k]) /\ (k = n \/ IsSpace(text[k + 1])))
  IN [w \in 1..Len(starts) |-> SubSeq(text, starts[w], ends[w])]

\* sep.join(words)
RECURSIVE join(_, _)
join(sep, words) ==
  IF words = <<>> THEN <<>>
  ELSE IF Len(words) = 1 THEN words[1]
  ELSE words[1] \o sep \o join(sep, Tail(words))

\* str(n) of a natural number
RECURSIVE str(_)
str(n) ==
  LET digit == <<"0", "1", "2", "3", "4", "5", "6", "7", "8", "9">>
  IN IF n < 10 THEN <<digit[n + 1]>> ELSE str(n \div 10) \o <<digit[(n % 10) + 1]>>

(***************************************************************************)
(* clean_text and get_page_content.                                        *)
(***************************************************************************)
clean_text(text) ==
  IF text = <<>> THEN <<>> ELSE join(<<" ">>, split(text))

\* the slice left out
TruncateNone(content) == content

\* content[:1500]
Truncate(content) == SubSeq(content, 1, Min(Len(content), TruncLen))

\* the text cleaned first and sliced afterwards
preview_clean_first(content) == Truncate(clean_text(content))

\* 'body': clean_text(content[:1500])
preview(content) == clean_text(Truncate(content))

\* A fetch outcome says what Article(url).download(), .parse() and .nlp() do:
\* raises/msg, the exception of download or parse; title, text, the parsed
\* fields; nlpRaises, summary, what nlp() does.
FetchOutcome(raises, msg, title, text, nlpRaises, summary) ==
  [raises |-> raises, msg |-> msg, title |-> title, text |-> text,
   nlpRaises |-> nlpRaises, summary |-> summary]

get_page_content(u, f) ==
  IF f.raises
  THEN [title |-> u, body |-> ErrorBodyPrefix \o f.msg, link |-> u]
  ELSE LET summary == IF f.nlpRaises THEN <<>> ELSE f.summary
           title == IF f.title # <<>> THEN f.title ELSE u
           content == IF summary # <<>> THEN summary ELSE f.text
       IN IF title = <<>> /\ content = <<>>
          THEN [title |-> u, body |-> SentinelBody, link |-> u]
          ELSE [title |-> clean_text(title),
                body |-> preview(content),
                link |-> u]

(***************************************************************************)
(* SpecExtract: get_page_content on one fetch outcome.                     *)
(***************************************************************************)
\* the k-th URL of a search: "u1", "u2", ...
UrlOf(k) == <<"u">> \o str(k)

NoFetch == FetchOutcome(FALSE, <<>>, <<>>, <<>>, FALSE, <<>>)

\* lengths around the truncation point
NearTrunc == (TruncLen - Extra)..(TruncLen + Extra)

LongTexts ==
  {Rep("b", n) : n \in NearTrunc}
    \cup {<<"a", " ", "\n">> \o Rep("b", n) : n \in NearTrunc}
    \cup {Rep("b", n - 1) \o <<" ", " ", "c">> : n \in NearTrunc}

ShortTexts == {<<>>, <<" ", "\n">>, <<"a", " ", " ", "b", "\t">>}

ExTitles == {<<>>, <<" ", "T", "\n", "x">>}

ExSummaries == {<<>>, <<"s", " ", " ", "m">>}

ExMessages ==
  {<<"4", "0", "4">>} \cup {Rep("e", n - Len(ErrorBodyPrefix)) : n \in NearTrunc}

ExFetches ==
  {FetchOutcome(TRUE, m, <<>>, <<>>, FALSE, <<>>) : m \in ExMessages}
    \cup {FetchOutcome(FALSE, <<>>, t, x, n, s) :
            t \in ExTitles, x \in LongTexts \cup ShortTexts, n \in BOOLEAN,
            s \in ExSummaries}

PipeIdle ==
  /\ pc = "idle"
  /\ search_query = <<>>
  /\ max_results = SliderMin
  /\ yielded = 0
  /\ url = <<>>
  /\ results = <<>>
  /\ papers = <<>>
  /\ idx = 0
  /\ papers_data = <<>>
  /\ markdown_content = <<>>
  /\ now = 0
  /\ inFlight = 0
  /\ searchFailed = FALSE
  /\ extracted = <<>>
  /\ attempts = <<>>
  /\ delays = 0
  /\ events = <<>>
  /\ llmLog = <<>>
  /\ warned = "none"

InitExtract ==
  /\ PipeIdle
  /\ exUrl \in {UrlOf(1), UrlOf(12)}
  /\ exFetch \in ExFetches
  /\ exResult = <<>>

ExtractCall ==
  /\ exResult = <<>>
  /\ exResult' = <<get_page_content(exUrl, exFetch)>>
  /\ UNCHANGED <<exUrl, exFetch>>
  /\ UNCHANGED pipeVars

NextExtract == ExtractCall

SpecExtract == InitExtract /\ [][NextExtract]_vars

(***************************************************************************)
(* search_papers, analyze_paper, generate_markdown.                        *)
(***************************************************************************)
\* the filter keeps a body that merely lacks the 26-character error prefix
KeepUnlessErrorBody(paper_info) == ~startswith(paper_info.body, ErrorBodyPrefix)

\* paper_info['body'] and not paper_info['body'].startswith("Error extracting content")
Keep(paper_info) ==
  paper_info.body # <<>> /\ ~startswith(paper_info.body, ErrorFilterPrefix)

\* the handler hands back what was collected before the failure
ExceptReturnCollected(collected) == collected

\* except Exception as e: st.error(...); return []
ExceptReturn(collected) == <<>>

\* the pause left out
time_sleep_skipped(t, secs) == t

\* time.sleep(secs): the clock when the call returns
time_sleep(t, secs) == t + secs

\* A language-model outcome: chat() raises with msg, or answers with text.
LlmOutcome(raises, msg, text) == [raises |-> raises, msg |-> msg, text |-> text]

\* the handler returns the bare message
analyze_paper_bare(paper_info, r) == IF r.raises THEN r.msg ELSE r.text

analyze_paper(paper_info, r) ==
  IF r.raises THEN AnalysisErrorPrefix \o r.msg ELSE r.text

\* progress computed from the 0-based index
progress_zero_based(i, n) == <<i, n>>

\* progress = (i + 1) / len(papers), as the pair <<numerator, denominator>>
progress(i, n) == <<i + 1, n>>

\* enumerate(papers_data, 0)
enumerate_from_zero(k) == k - 1

\* enumerate(papers_data, 1): the number shown for the k-th paper
enumerate_idx(k) == k

\* one loop iteration of generate_markdown: the section of the k-th paper
section(k, paper) ==
  MdSec1 \o str(enumerate_idx(k)) \o MdSec2 \o paper.title \o MdSec3 \o paper.link
    \o MdSec4 \o paper.body \o MdSec5 \o paper.analysis \o MdSec6

RECURSIVE sections(_, _)
sections(data, k) ==
  IF k > Len(data) THEN <<>> ELSE section(k, data[k]) \o sections(data, k + 1)

\* stamp is datetime.now().strftime("%Y-%m-%d %H:%M:%S")
generate_markdown(data, query, stamp) ==
  MdHeader1 \o query \o MdHeader2 \o stamp \o MdHeader3 \o sections(data, 1)

(***************************************************************************)
(* Inputs of a run.                                                        *)
(***************************************************************************)
Stamp ==
  <<"2", "0", "2", "4", "-", "0", "1", "-", "0", "1", " ", "0", "0", ":", "0", "0", ":", "0",
    "0">>

Queries == {<<>>, <<"q">>}

SliderChoices == {SliderMin, SliderMax}

\* seconds one extraction takes
Durations == {0, 1}

FetchRaises == FetchOutcome(TRUE, <<"4", "0", "4">>, <<>>, <<>>, FALSE, <<>>)

\* a page without a title whose text is blank
FetchBlankPage == FetchOutcome(FALSE, <<>>, <<>>, <<" ", "\n">>, FALSE, <<>>)

FetchArticle ==
  FetchOutcome(FALSE, <<>>, <<"T">>, <<"a", " ", "\n", "b">>, TRUE, <<>>)

\* an article whose text is the words "Error extracting content"
FetchArticleAboutErrors ==
  FetchOutcome(FALSE, <<>>, <<"T">>, ErrorFilterPrefix, FALSE, <<>>)

PipeFetches == {FetchRaises, FetchBlankPage, FetchArticle, FetchArticleAboutErrors}

LlmOutcomes ==
  {LlmOutcome(FALSE, <<>>, <<"o", "k">>),
   LlmOutcome(FALSE, <<>>, <<"k", "\n", "#", "#", " ", "M">>),
   LlmOutcome(TRUE, <<"d", "o", "w", "n">>, <<>>)}

(***************************************************************************)
(* Spec: one run of main().                                                *)
(***************************************************************************)
Init ==
  /\ PipeIdle
  /\ exUrl = <<>>
  /\ exFetch = NoFetch
  /\ exResult = <<>>

\* if st.button(...): if search_query: ... else: st.warning(...)
Click ==
  /\ pc = "idle"
  /\ \E q \in Queries, m \in SliderChoices :
       /\ search_query' = q
       /\ max_results' = m
       /\ IF q # <<>>
          THEN pc' = "search_next" /\ warned' = warned
          ELSE pc' = "end" /\ warned' = "empty"
  /\ UNCHANGED <<yielded, url, results, papers, idx, papers_data, markdown_content,
                 now, inFlight, searchFailed, extracted, attempts, delays,
                 events, llmLog>>
  /\ UNCHANGED exVars

\* search_papers returns value to main(): if papers: ... else: st.warning(...)
SearchReturns(value) ==
  /\ papers' = value
  /\ idx' = 0
  /\ IF value # <<>>
     THEN pc' = "progress" /\ warned' = warned
     ELSE pc' = "end" /\ warned' = "nopapers"

\* the generator of search(academic_query, num_results=max_results) yields a URL
SearchYield ==
  /\ pc = "search_next"
  /\ yielded < MaxYield
  /\ yielded' = yielded + 1
  /\ url' = UrlOf(yielded + 1)
  /\ pc' = "extract"
  /\ UNCHANGED <<search_query, max_results, results, papers, idx, papers_data,
                 markdown_content, now, inFlight, searchFailed, extracted,
                 attempts, delays, events, llmLog, warned>>
  /\ UNCHANGED exVars

\* the generator is exhausted: return results
SearchStop ==
  /\ pc = "search_next"
  /\ SearchReturns(results)
  /\ UNCHANGED <<search_query, max_results, yielded, url, results, papers_data,
                 markdown_content, now, inFlight, searchFailed, extracted,
                 attempts, delays, events, llmLog>>
  /\ UNCHANGED exVars

\* the generator raises: except Exception
SearchRaise ==
  /\ pc = "search_next"
  /\ searchFailed' = TRUE
  /\ SearchReturns(ExceptReturn(results))
  /\ UNCHANGED <<search_query, max_results, yielded, url, results, papers_data,
                 markdown_content, now, inFlight, extracted, attempts,
                 delays, events, llmLog>>
  /\ UNCHANGED exVars

\* paper_info = get_page_content(url); if ...: results.append(paper_info)
Extract ==
  /\ pc = "extract"
  /\ \E f \in PipeFetches, d \in Durations :
       LET paper_info == get_page_content(url, f)
       IN /\ results' = IF Keep(paper_info) THEN Append(results, paper_info) ELSE results
          /\ extracted' = Append(extracted, paper_info)
          /\ attempts' = Append(attempts, [start |-> now, end |-> now + d])
          /\ now' = now + d
  /\ pc' = "sleep"
  /\ UNCHANGED <<search_query, max_results, yielded, url, papers, idx, papers_data,
                 markdown_content, inFlight, searchFailed, delays, events, llmLog,
                 warned>>
  /\ UNCHANGED exVars

\* time.sleep(2)
Sleep ==
  /\ pc = "sleep"
  /\ now' = time_sleep(now, SleepSecs)
  /\ delays' = delays + 1
  /\ pc' = "search_next"
  /\ UNCHANGED <<search_query, max_results, yielded, url, results, papers, idx,
                 papers_data, markdown_content, inFlight, searchFailed,
                 extracted, attempts, events, llmLog, warned>>
  /\ UNCHANGED exVars

\* progress_bar.progress(progress); progress_container.text(...)
Progress ==
  /\ pc = "progress"
  /\ events' = Append(events, <<"progress">> \o progress(idx, Len(papers)))
  /\ pc' = "analyze"
  /\ UNCHANGED <<search_query, max_results, yielded, url, results, papers, idx,
                 papers_data, markdown_content, now, inFlight, searchFailed,
                 extracted, attempts, delays, llmLog, warned>>
  /\ UNCHANGED exVars

\* analyze_paper(paper) is entered and chat(...) is called
AnalyzeStart ==
  /\ pc = "analyze"
  /\ events' = Append(events, <<"start", idx + 1>>)
  /\ inFlight' = inFlight + 1
  /\ pc' = "chat"
  /\ UNCHANGED <<search_query, max_results, yielded, url, results, papers, idx,
                 papers_data, markdown_content, now, searchFailed, extracted,
                 attempts, delays, llmLog, warned>>
  /\ UNCHANGED exVars

\* chat(...) returns or raises; papers_data.append({...})
AnalyzeEnd ==
  /\ pc = "chat"
  /\ \E r \in LlmOutcomes :
       LET paper == papers[idx + 1]
           analysis == analyze_paper(paper, r)
       IN /\ papers_data' =
               Append(papers_data,
                      [title |-> paper.title, link |-> paper.link,
                       body |-> paper.body, analysis |-> analysis])
          /\ llmLog' = Append(llmLog, r)
  /\ events' = Append(events, <<"end", idx + 1>>)
  /\ inFlight' = inFlight - 1
  /\ idx' = idx + 1
  /\ pc' = IF idx + 1 < Len(papers) THEN "progress" ELSE "report"
  /\ UNCHANGED <<search_query, max_results, yielded, url, results, papers,
                 markdown_content, now, searchFailed, extracted, attempts,
                 delays, warned>>
  /\ UNCHANGED exVars

\* markdown_content = generate_markdown(papers_data, search_query)
Report ==
  /\ pc = "report"
  /\ markdown_content' = generate_markdown(papers_data, search_query, Stamp)
  /\ pc' = "end"
  /\ UNCHANGED <<search_query, max_results, yielded, url, results, papers, idx,
                 papers_data, now, inFlight, searchFailed, extracted,
                 attempts, delays, events, llmLog, warned>>
  /\ UNCHANGED exVars

Next ==
  \/ Click
  \/ SearchYield
  \/ SearchStop
  \/ SearchRaise
  \/ Extract
  \/ Sleep
  \/ Progress
  \/ AnalyzeStart
  \/ AnalyzeEnd
  \/ Report

Spec == Init /\ [][Next]_vars

(***************************************************************************)
(* Reference definitions used by the properties.                           *)
(***************************************************************************)
\* the first k characters of s
Prefix(s, k) == [j \in 1..Min(k, Len(s)) |-> s[j]]

\* Whitespace normalisation stated on characters: every non-space character
\* is kept, each whitespace run after a word becomes one space, and leading
\* and trailing whitespace disappears.
Normalize(text) ==
  LET n == Len(text)
      kept == SelectSeq([k \in 1..n |-> k],
                        LAMBDA k: ~IsSpace(text[k]) \/ (k > 1 /\ ~IsSpace(text[k - 1])))
      m == [k \in 1..Len(kept) |-> IF IsSpace(text[kept[k]]) THEN " " ELSE text[kept[k]]]
  IN IF Len(m) > 0 /\ m[Len(m)] = " " THEN SubSeq(m, 1, Len(m) - 1) ELSE m

\* the lines of s, as s.split("\n") gives them
Lines(s) ==
  LET n == Len(s)
      nl == SelectSeq([k \in 1..n |-> k], LAMBDA k: s[k] = "\n")
  IN [k \in 1..(Len(nl) + 1) |->
        SubSeq(s, IF k = 1 THEN 1 ELSE nl[k - 1] + 1, IF k <= Len(nl) THEN nl[k] - 1 ELSE n)]

H2Mark == <<"#", "#", " ">>

\* the lines of s that open a `##` section
H2Lines(s) == SelectSeq(Lines(s), LAMBDA line: startswith(line, H2Mark))

\* search_papers has returned to main()
SearchReturned ==
  pc \in {"progress", "analyze", "chat", "report", "end"} /\ warned # "empty"

\* the page was fetched and parsed, and has no title, no summary and no text
IsEmptyPage(f) ==
  ~f.raises /\ f.title = <<>> /\ f.text = <<>> /\ (f.nlpRaises \/ f.summary = <<>>)

ExDone == exResult # <<>>

\* the content and the title get_page_content works on, from the fetch outcome
ExContent ==
  IF ~exFetch.nlpRaises /\ exFetch.summary # <<>> THEN exFetch.summary ELSE exFetch.text

ExTitle == IF exFetch.title # <<>> THEN exFetch.title ELSE exUrl

ExNormalPath == ExDone /\ ~exFetch.raises /\ ExContent # <<>>

(***************************************************************************)
(* Properties.                                                             *)
(***************************************************************************)
\* C1: the list search_papers returns has at most max_results entries,
\* however many URLs the search generator yields.
C1_AtMostMaxResults == SearchReturned => Len(papers) <= max_results

\* C2 (as stated): when the search does not fail, the returned list is the
\* subsequence of the extraction results whose body does not start with
\* "Error extracting content: ".
C2_KeepsAllButErrorBodies ==
  (SearchReturned /\ ~searchFailed) =>
    papers = SelectSeq(extracted, LAMBDA p: ~startswith(p.body, ErrorBodyPrefix))

\* C2 (amended): when the search does not fail, the returned list is the
\* subsequence, in search-result order, of the extraction results whose body
\* is non-empty and does not start with "Error extracting content" (without
\* the colon and space); the same holds of the partial list during the loop.
C2_KeepsNonEmptyNonErrorBodies ==
  LET kept == SelectSeq(extracted,
                        LAMBDA p: p.body # <<>> /\ ~startswith(p.body, ErrorFilterPrefix))
  IN /\ results = kept
     /\ (SearchReturned /\ ~searchFailed) => papers = kept

C2_Witness ==
  /\ SearchReturned
  /\ ~searchFailed
  /\ papers # <<>>
  /\ \E k \in 1..Len(extracted) : extracted[k].body = <<>>
  /\ \E k \in 1..Len(extracted) : startswith(extracted[k].body, ErrorFilterPrefix)

\* C3: a page fetched and parsed without an exception that yields no title,
\* no summary and no text gives the sentinel body "Content not accessible -
\* might be a PDF or protected content", which the filter of search_papers
\* lets through.
C3_EmptyPageGivesKeptSentinel ==
  (ExDone /\ IsEmptyPage(exFetch)) =>
    /\ exResult[1].body = SentinelBody
    /\ Keep(exResult[1])

\* C4 (as stated): every body get_page_content returns, on every path, is at
\* most 1500 characters long.
C4_BodyWithinBound == ExDone => Len(exResult[1].body) <= TruncLen

\* C4 (amended): a body returned without a caught exception is at most 1500
\* characters long; on the caught-exception path the body is
\* "Error extracting content: " followed by the whole message, 26 characters
\* longer than the message.
C4_BodyWithinBoundUnlessError ==
  ExDone =>
    IF exFetch.raises
    THEN exResult[1].body = ErrorBodyPrefix \o exFetch.msg
    ELSE Len(exResult[1].body) <= TruncLen

C4_Witness ==
  /\ ExDone
  /\ ~exFetch.raises
  /\ Len(ExContent) > TruncLen
  /\ Len(exResult[1].body) = TruncLen

\* C5: if the search generator raises, before any URL or after some were
\* extracted and kept, search_papers returns the empty list, main() warns
\* that no papers were found, and no analysis and no report is made.
C5_SearchFailureEndsRun ==
  searchFailed =>
    /\ papers = <<>>
    /\ pc = "end"
    /\ warned = "nopapers"
    /\ events = <<>>
    /\ llmLog = <<>>
    /\ papers_data = <<>>
    /\ inFlight = 0
    /\ markdown_content = <<>>

C5_Witness == searchFailed /\ results # <<>> /\ pc = "end"

\* C6: a run that ends with n > 0 papers has exactly n analysed papers and a
\* report; the i-th analysed paper has the title, body and link of the i-th
\* paper, and its analysis is the model's text, or "Analysis error: " and the
\* message when the call raised.  While the loop runs, one analysed paper
\* exists per finished call.
C6_OneAnalysisPerPaper ==
  /\ Len(papers_data) = Len(llmLog)
  /\ Len(papers_data) = idx
  /\ \A i \in 1..Len(papers_data) :
       /\ papers_data[i].title = papers[i].title
       /\ papers_data[i].body = papers[i].body
       /\ papers_data[i].link = papers[i].link
       /\ papers_data[i].analysis =
            IF llmLog[i].raises
            THEN AnalysisErrorPrefix \o llmLog[i].msg
            ELSE llmLog[i].text
  /\ (pc = "end" /\ papers # <<>>) =>
       Len(papers_data) = Len(papers) /\ markdown_content # <<>>

C6_Witness ==
  /\ pc = "end"
  /\ Len(papers_data) >= 2
  /\ \E i \in 1..Len(llmLog) : llmLog[i].raises
  /\ \E i \in 1..Len(llmLog) : ~llmLog[i].raises

\* the heading generate_markdown writes for the k-th paper
NumberedHeading(k, paper) == H2Mark \o str(k) \o <<".", " ">> \o paper.title

\* C7 (as stated): the report has exactly n `##` sections, the k-th being the
\* section of the k-th paper.
C7_ExactlyOneH2PerPaper ==
  markdown_content # <<>> =>
    /\ Len(H2Lines(markdown_content)) = Len(papers_data)
    /\ \A k \in 1..Len(papers_data) :
         H2Lines(markdown_content)[k] = NumberedHeading(k, papers_data[k])

RECURSIVE ExpectedH2(_, _)
ExpectedH2(data, k) ==
  IF k > Len(data) THEN <<>>
  ELSE <<NumberedHeading(k, data[k])>> \o H2Lines(data[k].body)
         \o H2Lines(data[k].analysis) \o ExpectedH2(data, k + 1)

\* C7 (amended): the `##` lines of the report are the header's
\* "## Search Query: <query>" line followed, for each paper in input order,
\* by its numbered heading "## k. <title>" and then the `##` lines that the
\* paper's own body and analysis contain: n numbered sections, in order, and
\* at least n + 1 `##` lines.
C7_HeaderThenOneNumberedH2PerPaper ==
  markdown_content # <<>> =>
    /\ H2Lines(markdown_content) =
         <<H2Mark \o <<"S", "e", "a", "r", "c", "h", " ", "Q", "u", "e", "r", "y", ":", " ">>
             \o search_query>>
           \o ExpectedH2(papers_data, 1)
    /\ Len(H2Lines(markdown_content)) >= Len(papers_data) + 1

C7_Witness ==
  /\ markdown_content # <<>>
  /\ Len(papers_data) >= 2
  /\ \E k \in 1..Len(papers_data) : H2Lines(papers_data[k].analysis) # <<>>
  /\ \E k \in 1..Len(papers_data) : H2Lines(papers_data[k].analysis) = <<>>

\* C8 (as stated): on the normal path the body is the first 1500 characters
\* of the normalised content, the title the normalised title, the link the url.
C8_NormalizeThenTruncate ==
  ExNormalPath =>
    /\ exResult[1].body = Prefix(Normalize(ExContent), TruncLen)
    /\ exResult[1].title = Normalize(ExTitle)
    /\ exResult[1].link = exUrl

\* C8 (amended): on the normal path the body is the normalisation of the
\* first 1500 characters of the content (truncate first, then normalise), the
\* title the normalised title, the link the url.
C8_TruncateThenNormalize ==
  ExNormalPath =>
    /\ exResult[1].body = Normalize(Prefix(ExContent, TruncLen))
    /\ exResult[1].title = Normalize(ExTitle)
    /\ exResult[1].link = exUrl

C8_Witness ==
  /\ ExNormalPath
  /\ Len(ExContent) > TruncLen
  /\ Normalize(Prefix(ExContent, TruncLen)) # Prefix(Normalize(ExContent), TruncLen)

\* the j-th event of an analysis stage over n papers
ExpectedEvent(j, n) ==
  LET k == ((j - 1) \div 3) + 1
      phase == (j - 1) % 3
  IN IF phase = 0 THEN <<"progress", k, n>>
     ELSE IF phase = 1 THEN <<"start", k>>
     ELSE <<"end", k>>

\* C9: the events of the analysis stage over n papers are progress(1) with
\* fraction 1/n, start(1), end(1), progress(2) with fraction 2/n, ..., end(n),
\* in that order; at most one language-model call is in flight; a report is
\* written only after end(n).
C9_SequentialAnalysis ==
  /\ \A j \in 1..Len(events) : events[j] = ExpectedEvent(j, Len(papers))
  /\ Len(events) <= 3 * Len(papers)
  /\ inFlight \in {0, 1}
  /\ inFlight = 1 <=> pc = "chat"
  /\ markdown_content # <<>> => Len(events) = 3 * Len(papers)

C9_Witness == pc = "end" /\ Len(events) >= 6 /\ markdown_content # <<>>

\* C10: every extraction attempt is followed by one delay of 2 seconds,
\* whatever the attempt returned: outside the moment between an attempt and
\* its delay the delays number the attempts, and an attempt starts no sooner
\* than 2 seconds after the previous attempt ended.
C10_DelayAfterEveryAttempt ==
  /\ delays = IF pc = "sleep" THEN Len(attempts) - 1 ELSE Len(attempts)
  /\ \A k \in 1..(Len(attempts) - 1) : attempts[k + 1].start >= attempts[k].end + 2
  /\ (pc # "sleep" /\ attempts # <<>>) => now >= attempts[Len(attempts)].end + 2

C10_Witness ==
  /\ Len(attempts) >= 2
  /\ delays = Len(attempts)
  /\ \E k \in 1..Len(extracted) : startswith(extracted[k].body, ErrorBodyPrefix)
  /\ \E k \in 1..Len(extracted) : extracted[k].body = <<>>

====
